---- MODULE Spec2Model ----
(***************************************************************************)
(* State-machine model of tornet/modules/hidden_service_scanner.py:        *)
(* HiddenServiceScanner.start(), its loader, its worker threads and its    *)
(* report writer.                                                          *)
(*                                                                         *)
(* Python str values are modelled as sequences of lexemes (a lexeme is a   *)
(* run of characters the code never looks inside, such as "http", "://",   *)
(* ".onion"), so that strip(), startswith(), endswith() and the `in`       *)
(* substring test are computed and not assumed.  An optional value is a    *)
(* sequence of length at most one: None is <<>>, a present value x is      *)
(* <<x>>.                                                                  *)
(***************************************************************************)
EXTENDS Integers, Sequences, FiniteSets, TLC

\* ------------------------------------------------------------------ bounds
MaxLines == 2
MaxThreads == 2
MaxLoadLines == 3
MaxHops == 3
MaxClients == 3
MaxPeers == 2
MaxSwitches == 3

\* --------------------------------------------------------- optional values
None == <<>>
Some(x) == <<x>>

\* ------------------------------------------------------- string operations
Whitespace == {" ", "\n"}

RECURSIVE LStrip(_)
LStrip(s) ==
    IF s # <<>> /\ Head(s) \in Whitespace THEN LStrip(Tail(s)) ELSE s

RECURSIVE RStrip(_)
RStrip(s) ==
    IF s # <<>> /\ s[Len(s)] \in Whitespace
    THEN RStrip(SubSeq(s, 1, Len(s) - 1))
    ELSE s

Strip(s) == RStrip(LStrip(s))

StartsWith(s, p) == Len(s) >= Len(p) /\ SubSeq(s, 1, Len(p)) = p

Contains(s, p) ==
    \E i \in 1..(Len(s) + 1) :
        i + Len(p) - 1 <= Len(s) /\ SubSeq(s, i, i + Len(p) - 1) = p

\* ------------------------------------------------------------ input files
LineA == <<" ", "a", ".onion", "\n">>
LineHttpB == <<"http", "://", "b", ".onion", "\n">>
LineCom == <<"a", ".com", "\n">>

LineVocab == {LineA, LineHttpB, LineCom}

RECURSIVE SeqsUpTo(_, _)
SeqsUpTo(S, n) ==
    IF n = 0 THEN {<<>>}
    ELSE LET shorter == SeqsUpTo(S, n - 1)
         IN shorter \cup {Append(q, x) : q \in shorter, x \in S}

\* kind "missing": os.path.exists is False; "denied": open() raises;
\* "badbytes": reading the file raises (UnicodeDecodeError) after its first
\* line; "ok": every line is read.
Files ==
    {[kind |-> "missing", lines |-> <<>>],
     [kind |-> "denied", lines |-> <<LineA>>],
     [kind |-> "badbytes", lines |-> <<LineA>>]}
    \cup {[kind |-> "ok", lines |-> ls] : ls \in SeqsUpTo(LineVocab, MaxLines)}

\* The lines the loader is tried on by itself: a blank line, a line of
\* spaces, hosts with and without a scheme, a host whose name begins with
\* the letters http, a URL with a path, a host of another suffix.
LineAbc == <<"abc", ".onion", "\n">>
LineDef == <<"def", ".onion">>
LineBlank == <<"\n">>
LineSpaces == <<" ", " ", "\n">>
LineHttpsA == <<"http", "s", "://", "a", ".onion", "\n">>
LineHttpX == <<"http", "x", ".onion", "\n">>
LinePath == <<"a", ".onion", "/x", "\n">>

LoadVocab ==
    LineVocab \cup {LineAbc, LineDef, LineBlank, LineSpaces, LineHttpsA,
                    LineHttpX, LinePath}

LoadFiles ==
    {[kind |-> "ok", lines |-> ls] : ls \in SeqsUpTo(LoadVocab, MaxLoadLines)}

EndsWith_Anywhere(s, p) ==
    \E i \in 1..(Len(s) + 1) :
        i + Len(p) - 1 <= Len(s) /\ SubSeq(s, i, i + Len(p) - 1) = p

\* domain.endswith(p)
EndsWith(s, p) ==
    Len(s) >= Len(p) /\ SubSeq(s, Len(s) - Len(p) + 1, Len(s)) = p

\* ------------------------------------------------- _load_onion_domains
Http == <<"http">>
HttpScheme == <<"http", "://">>
OnionSuffix == <<".onion">>

RECURSIVE ParseLines(_)
ParseLines(lines) ==
    IF lines = <<>> THEN <<>>
    ELSE LET domain == Strip(Head(lines))
             rest == ParseLines(Tail(lines))
         IN IF domain # <<>> /\ EndsWith(domain, OnionSuffix)
            THEN <<IF ~StartsWith(domain, Http)
                   THEN HttpScheme \o domain
                   ELSE domain>> \o rest
            ELSE rest

\* The loop queue.put(domain) placed inside the reading loop: what was read
\* before a failure is already on the queue.
LoadOnionDomains_PutWhileReading(f) ==
    IF f.kind = "missing" THEN [ok |-> FALSE, total |-> 0, put |-> <<>>]
    ELSE IF f.kind = "denied" THEN [ok |-> FALSE, total |-> 0, put |-> <<>>]
    ELSE IF f.kind = "badbytes"
         THEN [ok |-> FALSE, total |-> 0, put |-> ParseLines(f.lines)]
    ELSE [ok |-> TRUE, total |-> Len(ParseLines(f.lines)),
          put |-> ParseLines(f.lines)]

\* The effect of _load_onion_domains: its return value, the total_count it
\* sets and the domains it puts on the queue.  A missing file returns False
\* at once; an exception from open() or from reading is caught by
\* `except Exception` before total_count is set and before the first put.
LoadOnionDomains(f) ==
    IF f.kind = "missing" THEN [ok |-> FALSE, total |-> 0, put |-> <<>>]
    ELSE IF f.kind \in {"denied", "badbytes"}
         THEN [ok |-> FALSE, total |-> 0, put |-> <<>>]
    ELSE [ok |-> TRUE, total |-> Len(ParseLines(f.lines)),
          put |-> ParseLines(f.lines)]

\* ------------------------------------------------------- HTTP outcomes
RequestExceptionClasses == {"Timeout", "ConnectionError"}
ExceptionClasses == RequestExceptionClasses \cup {"ValueError", "ParserRejectedMarkup"}

TextHtml == <<"text/html">>
Unknown == <<"Unknown">>
NoTitle == <<"No title">>

Exc(c, m) == [class |-> c, msg |-> m]

Body(exc, title, anchors) == [parse_exc |-> exc, title |-> title, anchors |-> anchors]

Response(code, server, ctype, body) ==
    [kind |-> "response", status_code |-> code, server |-> server,
     content_type |-> ctype, body |-> body]

Raised(e) == [kind |-> "raise", exc |-> e]

\* What session.get(url, timeout=...) can do for one target.
Outcomes ==
    { Raised(Exc("Timeout", <<"timed out">>)),
      Raised(Exc("ConnectionError", <<"refused">>)),
      Raised(Exc("ValueError", <<>>)),
      Response(200, Some(<<"nginx">>), Some(<<"text/html", ";", "charset=utf-8">>),
               Body(None, Some(<<" ", "T", "\n">>), 1)),
      Response(200, None, Some(<<"text/html">>), Body(None, None, 0)),
      Response(200, None, Some(<<"text/html">>),
               Body(Some(Exc("ParserRejectedMarkup", <<"bad markup">>)), None, 0)),
      Response(200, None, Some(<<"application/json">>), Body(None, None, 0)),
      Response(404, None, None, Body(None, Some(<<"T">>), 0)) }

\* ------------------------------------------------------------ _scan_domain
InitialResult_Code0 ==
    [status |-> "inactive", response_code |-> Some(0), title |-> None,
     server |-> None, content_type |-> None, links |-> 0]

InitialResult ==
    [status |-> "inactive", response_code |-> None, title |-> None,
     server |-> None, content_type |-> None, links |-> 0]

HeaderGet(h, default) == IF h = None THEN default ELSE h[1]

Return(r) == [raised |-> FALSE, value |-> r]
Raise(e) == [raised |-> TRUE, exc |-> e]

ScanCatches_TimeoutOnly(e) == e.class = "Timeout"

\* except requests.exceptions.RequestException
ScanCatches(e) == e.class \in RequestExceptionClasses

IsHtml_Always(ct) == TRUE

IsHtml_Exact(ct) == ct = TextHtml

\* 'text/html' in result['content_type']
IsHtml(ct) == Contains(ct, TextHtml)

ScanDomain(o) ==
    IF o.kind = "raise"
    THEN IF ScanCatches(o.exc) THEN Return(InitialResult) ELSE Raise(o.exc)
    ELSE LET ct == HeaderGet(o.content_type, Unknown)
             r1 == [InitialResult EXCEPT
                       !.response_code = Some(o.status_code),
                       !.status = "active",
                       !.server = Some(HeaderGet(o.server, Unknown)),
                       !.content_type = Some(ct)]
         IN IF IsHtml(ct)
            THEN IF o.body.parse_exc # None
                 THEN IF ScanCatches(o.body.parse_exc[1])
                      THEN Return(r1)
                      ELSE Raise(o.body.parse_exc[1])
                 ELSE Return([r1 EXCEPT
                         !.title = IF o.body.title # None
                                   THEN Some(Strip(o.body.title[1]))
                                   ELSE Some(NoTitle),
                         !.links = o.body.anchors])
            ELSE Return(r1)

\* ----------------------------------------------------------------- state
WorkerIds == 1..(MaxThreads + 1)
Free == 0
\* the thread that runs start()
MainThread == MaxThreads + 2

VARIABLES
    file,           \* the input file named by onion_list_file
    threads,        \* self.threads
    queue,          \* self.queue
    unfinished,     \* self.queue.unfinished_tasks
    total_count,    \* self.total_count
    active_count,   \* self.active_count
    results,        \* self.results
    lock,           \* self.lock: Free, or the id of the worker that holds it
    pcS,            \* position of start()
    ret,            \* return value of start(): None, Some(TRUE), Some(FALSE)
    spawned,        \* len(workers)
    processed,      \* local of start()
    pbar,           \* tqdm bar: None, or [total, n]
    report,         \* the report file: None, or the sections written so far
    wpc,            \* position of each worker thread
    wdomain,        \* local `domain` of each worker
    wout,           \* what session.get did for the worker's current request
    wres,           \* outcome of _scan_domain in the worker
    writes,         \* history: number of assignments self.results[d] = ... per key
    requests        \* history: number of calls self.session.get(d) per target

\* TorMultiHop
VARIABLES
    num_hops,       \* self.num_hops
    torrc,          \* the configuration of each Tor instance, by instance number
    mhPc,           \* position of TorMultiHop.start()
    mhI,            \* loop variable i of _check_tor_config and _create_proxy_chain
    mhTest,         \* return value of the latest _test_chain(): None, Some(bool)
    mhLog,          \* the records logged so far
    mhRet           \* return value of TorMultiHop.start()

hopVars == <<num_hops, torrc, mhPc, mhI, mhTest, mhLog, mhRet>>

\* start_chat_server
VARIABLES
    clients,        \* the list `clients`
    accepted,       \* number of connections server.accept() has returned
    sock,           \* each client socket of the server: "none", "open", "closed"
    peer,           \* the remote end of each connection: "none", "connected", "gone"
    inbox,          \* the message of each peer: "unsent", "pending", "read"
    hpc,            \* position of each handle_client thread
    hidx,           \* index of the list iterator of `for c in clients`
    hcur,           \* loop variable c of each handler (0: none)
    delivered,      \* history: <<sender, recipient>> of every message sent on
    stayed,         \* history: who was in the list and connected all through
                    \* the handler's broadcast so far
    sendFailed      \* history: a send of the handler's broadcast raised

chatVars == <<clients, accepted, sock, peer, inbox, hpc, hidx, hcur,
              delivered, stayed, sendFailed>>

\* start_p2p_server
VARIABLES
    received_file,  \* the bytes of the file 'received_file'
    p2pAccepted,    \* number of connections server.accept() has returned
    ppc,            \* position of each handle_client thread
    file_data,      \* local `file_data` of each handler
    fbuf            \* bytes written to the handler's file object, not yet flushed

p2pVars == <<received_file, p2pAccepted, ppc, file_data, fbuf>>

\* AutoIdentitySwitcher
VARIABLES
    identity_count, \* self.identity_count
    running,        \* self.running
    swLock,         \* self.lock: "free", or the caller that holds it
    asPc,           \* position of AutoIdentitySwitcher.start()
    asRet,          \* return value of start()
    spc,            \* position of each caller of _switch_identity
    sreg,           \* the value of self.identity_count a caller has loaded
    swRet,          \* return value of each caller's latest _switch_identity
    calls,          \* history: number of calls of _switch_identity
    sent            \* history: number of NEWNYM signals the controller accepted

switcherVars == <<identity_count, running, swLock, asPc, asRet, spc, sreg,
                  swRet, calls, sent>>

moduleVars == <<hopVars, chatVars, p2pVars, switcherVars>>

vars == <<file, threads, queue, unfinished, total_count, active_count, results,
          lock, pcS, ret, spawned, processed, pbar, report,
          wpc, wdomain, wout, wres, writes, requests, moduleVars>>

startVars == <<pcS, ret, spawned, processed, pbar, report>>
workerVars == <<wpc, wdomain, wout, wres>>
configVars == <<file, threads>>

EmptyMap == [x \in {} |-> None]

Put(m, k, v) == [x \in DOMAIN m \cup {k} |-> IF x = k THEN v ELSE m[x]]

Range(s) == {s[i] : i \in DOMAIN s}

\* the scanner after __init__, before start() is called
Constructed ==
    /\ threads \in 1..MaxThreads
    /\ queue = <<>>
    /\ unfinished = 0
    /\ total_count = 0
    /\ active_count = 0
    /\ results = EmptyMap
    /\ lock = Free
    /\ pcS = "load"
    /\ ret = None
    /\ spawned = 0
    /\ processed = 0
    /\ pbar = None
    /\ report = None
    /\ wpc = [w \in WorkerIds |-> "unstarted"]
    /\ wdomain = [w \in WorkerIds |-> None]
    /\ wout = [w \in WorkerIds |-> None]
    /\ wres = [w \in WorkerIds |-> None]
    /\ writes = EmptyMap
    /\ requests = EmptyMap

\* no TorMultiHop object is made
NoMultiHop ==
    /\ num_hops = 0
    /\ torrc = <<>>
    /\ mhPc = "none"
    /\ mhI = 0
    /\ mhTest = None
    /\ mhLog = {}
    /\ mhRet = None

ClientIds == 1..MaxClients

\* the chat server is not started
NoChat ==
    /\ clients = <<>>
    /\ accepted = 0
    /\ sock = [c \in ClientIds |-> "none"]
    /\ peer = [c \in ClientIds |-> "none"]
    /\ inbox = [c \in ClientIds |-> "unsent"]
    /\ hpc = [c \in ClientIds |-> "none"]
    /\ hidx = [c \in ClientIds |-> 0]
    /\ hcur = [c \in ClientIds |-> 0]
    /\ delivered = {}
    /\ stayed = [c \in ClientIds |-> {}]
    /\ sendFailed = [c \in ClientIds |-> FALSE]

PeerIds == 1..MaxPeers

\* the P2P server is not started
NoP2P ==
    /\ received_file = <<>>
    /\ p2pAccepted = 0
    /\ ppc = [c \in PeerIds |-> "none"]
    /\ file_data = [c \in PeerIds |-> <<>>]
    /\ fbuf = [c \in PeerIds |-> <<>>]

\* the threads that call _switch_identity: the switching loop, and a caller
\* of switch_identity_now()
Callers == {"loop", "api"}

\* AutoIdentitySwitcher.__init__; for the other programs: no switcher is made
NoSwitcher ==
    /\ identity_count = 0
    /\ running = FALSE
    /\ swLock = "free"
    /\ asPc = "none"
    /\ asRet = None
    /\ spc = [t \in Callers |-> "idle"]
    /\ sreg = [t \in Callers |-> 0]
    /\ swRet = [t \in Callers |-> None]
    /\ calls = 0
    /\ sent = 0

\* The programs share no state: the scanner is run with the others left
\* as they are before they start.
OnlyScanner == NoMultiHop /\ NoChat /\ NoP2P /\ NoSwitcher

Init == file \in Files /\ Constructed /\ OnlyScanner

CanAcquire_NoLock == TRUE

\* with self.lock: the thread goes on when no thread holds the lock
CanAcquire == lock = Free

\* ------------------------------------------------------------------ start()
\* if not self._load_onion_domains(): return False
Load ==
    /\ pcS = "load"
    /\ LET l == LoadOnionDomains(file)
       IN /\ total_count' = l.total
          /\ queue' = queue \o l.put
          /\ unfinished' = unfinished + Len(l.put)
          /\ IF l.ok
             THEN pcS' = "spawn" /\ ret' = ret
             ELSE pcS' = "returned" /\ ret' = Some(FALSE)
    /\ UNCHANGED <<moduleVars, configVars, active_count, results, lock, spawned, processed,
                   pbar, report, workerVars, writes, requests>>

NumToSpawn_OneMore == threads + 1

NumToSpawn_OneLess == threads - 1

\* for _ in range(self.threads)
NumToSpawn == threads

\* worker = threading.Thread(target=self._worker); worker.start()
SpawnWorker ==
    /\ pcS = "spawn"
    /\ spawned < NumToSpawn
    /\ spawned' = spawned + 1
    /\ wpc' = [wpc EXCEPT ![spawned + 1] = "get"]
    /\ UNCHANGED <<moduleVars, configVars, queue, unfinished, total_count, active_count,
                   results, lock, pcS, ret, processed, pbar,
                   report, wdomain, wout, wres, writes, requests>>

\* while processed < self.total_count
WhileTest == IF processed < total_count THEN "readlen" ELSE "save_header"

\* with tqdm(total=self.total_count, ...) as pbar: processed = 0, and the
\* first test of the loop condition
OpenProgress ==
    /\ pcS = "spawn"
    /\ spawned >= NumToSpawn
    /\ pbar' = Some([total |-> total_count, n |-> 0])
    /\ processed' = 0
    /\ pcS' = IF 0 < total_count THEN "readlen" ELSE "save_header"
    /\ UNCHANGED <<moduleVars, configVars, queue, unfinished, total_count, active_count,
                   results, lock, ret, spawned, report, workerVars, writes, requests>>

\* with self.lock: new_processed = len(self.results)
\* if new_processed > processed: pbar.update(...); processed = new_processed
\* time.sleep(0.1)
ReadLen ==
    /\ pcS = "readlen"
    /\ CanAcquire
    /\ LET new_processed == Cardinality(DOMAIN results)
       IN IF new_processed > processed
          THEN /\ pbar' = Some([pbar[1] EXCEPT !.n = @ + (new_processed - processed)])
               /\ processed' = new_processed
          ELSE UNCHANGED <<pbar, processed>>
    /\ pcS' = "check"
    /\ UNCHANGED <<moduleVars, configVars, queue, unfinished, total_count, active_count,
                   results, lock, ret, spawned, report, workerVars, writes, requests>>

AllWorkersDone_QueueOnly == queue = <<>>

\* self.queue.empty() and all(not worker.is_alive() for worker in workers).
\* The queue only shrinks and a dead thread stays dead, so reading the
\* conjuncts one after the other gives the value an atomic read gives.
AllWorkersDone ==
    /\ queue = <<>>
    /\ \A w \in 1..spawned : wpc[w] = "dead"

\* if ...: break; otherwise the loop condition is tested again
CheckDone ==
    /\ pcS = "check"
    /\ pcS' = IF AllWorkersDone THEN "save_header" ELSE WhileTest
    /\ UNCHANGED <<moduleVars, configVars, queue, unfinished, total_count, active_count,
                   results, lock, ret, spawned, processed, pbar,
                   report, workerVars, writes, requests>>

\* ----------------------------------------------------------- _save_results
\* Order of str values as sorted() sees them, lexeme by lexeme.
LexemeOrder == <<"\n", " ", ".com", ".onion", "://", "a", "b", "http">>

Rank(t) == CHOOSE i \in DOMAIN LexemeOrder : LexemeOrder[i] = t

RECURSIVE StrLess(_, _)
StrLess(a, b) ==
    IF a = <<>> THEN b # <<>>
    ELSE IF b = <<>> THEN FALSE
    ELSE IF Head(a) = Head(b) THEN StrLess(Tail(a), Tail(b))
    ELSE Rank(Head(a)) < Rank(Head(b))

RECURSIVE Sorted(_)
Sorted(S) ==
    IF S = {} THEN <<>>
    ELSE LET m == CHOOSE x \in S : \A y \in S \ {x} : StrLess(x, y)
         IN <<m>> \o Sorted(S \ {m})

HasStatus(st) == {d \in DOMAIN results : results[d].status = st}

ActiveEntry_NoTitle(d) ==
    [url |-> d, response_code |-> results[d].response_code,
     title |-> None, server |-> results[d].server,
     content_type |-> results[d].content_type, links |-> results[d].links]

ActiveEntry(d) ==
    [url |-> d, response_code |-> results[d].response_code,
     title |-> results[d].title, server |-> results[d].server,
     content_type |-> results[d].content_type, links |-> results[d].links]

\* the four header lines
SaveHeader ==
    /\ pcS = "save_header"
    /\ report' = Some([total |-> total_count, active |-> active_count,
                       active_sites |-> <<>>, inactive_sites |-> <<>>,
                       error_sites |-> <<>>])
    /\ pcS' = "save_active"
    /\ UNCHANGED <<moduleVars, configVars, queue, unfinished, total_count, active_count,
                   results, lock, ret, spawned, processed, pbar,
                   workerVars, writes, requests>>

\* "## Active Sites"
SaveActive ==
    /\ pcS = "save_active"
    /\ LET ds == Sorted(HasStatus("active"))
       IN report' = Some([report[1] EXCEPT
              !.active_sites = [i \in DOMAIN ds |-> ActiveEntry(ds[i])]])
    /\ pcS' = "save_inactive"
    /\ UNCHANGED <<moduleVars, configVars, queue, unfinished, total_count, active_count,
                   results, lock, ret, spawned, processed, pbar,
                   workerVars, writes, requests>>

\* "## Inactive Sites"
SaveInactive ==
    /\ pcS = "save_inactive"
    /\ report' = Some([report[1] EXCEPT
           !.inactive_sites = Sorted(HasStatus("inactive"))])
    /\ pcS' = "save_error"
    /\ UNCHANGED <<moduleVars, configVars, queue, unfinished, total_count, active_count,
                   results, lock, ret, spawned, processed, pbar,
                   workerVars, writes, requests>>

\* "## Error Sites": the source file ends inside this loop; the listing of
\* the error-status targets is the completion the specification gives.
SaveError ==
    /\ pcS = "save_error"
    /\ LET ds == Sorted(HasStatus("error"))
       IN report' = Some([report[1] EXCEPT
              !.error_sites = [i \in DOMAIN ds |->
                                 [url |-> ds[i], error |-> results[ds[i]].error]]])
    /\ pcS' = "log"
    /\ UNCHANGED <<moduleVars, configVars, queue, unfinished, total_count, active_count,
                   results, lock, ret, spawned, processed, pbar,
                   workerVars, writes, requests>>

\* self.logger.info("Scan completed. ..."); return True
Finish ==
    /\ pcS = "log"
    /\ ret' = Some(TRUE)
    /\ pcS' = "returned"
    /\ UNCHANGED <<moduleVars, configVars, queue, unfinished, total_count, active_count,
                   results, lock, spawned, processed, pbar,
                   report, workerVars, writes, requests>>

\* ---------------------------------------------------------------- _worker
QueueGet_Lifo(q) == [item |-> q[Len(q)], rest |-> SubSeq(q, 1, Len(q) - 1)]

QueueGet_Peek(q) == [item |-> Head(q), rest |-> q]

\* self.queue.get(block=False) on a queue that is not empty
QueueGet(q) == [item |-> Head(q), rest |-> Tail(q)]

\* domain = self.queue.get(block=False); except queue.Empty: break
\* A dequeued domain goes straight to self.session.get: the request is in
\* flight while the worker is at "scan".
Dequeue(w) ==
    /\ wpc[w] = "get"
    /\ IF queue = <<>>
       THEN /\ wpc' = [wpc EXCEPT ![w] = "dead"]
            /\ UNCHANGED <<queue, wdomain, requests>>
       ELSE LET got == QueueGet(queue)
            IN /\ wdomain' = [wdomain EXCEPT ![w] = Some(got.item)]
               /\ queue' = got.rest
               /\ requests' = Put(requests, got.item,
                                  IF got.item \in DOMAIN requests
                                  THEN requests[got.item] + 1 ELSE 1)
               /\ wpc' = [wpc EXCEPT ![w] = "scan"]
    /\ UNCHANGED <<moduleVars, configVars, unfinished, total_count, active_count, results,
                   lock, startVars, wout, wres, writes>>

WorkerCatches_RequestOnly(e) == e.class \in RequestExceptionClasses

\* except Exception as e
WorkerCatches(e) == e.class \in ExceptionClasses

\* str(e)
Str(e) == e.msg

\* the value assigned to self.results[domain] on either path
StoredValue(r) ==
    IF r.raised THEN [status |-> "error", error |-> Some(Str(r.exc))]
    ELSE r.value

\* result = self._scan_domain(domain): the request ends, _scan_domain
\* returns or raises, and the worker enters `with self.lock:` on the try
\* path or in the handler and assigns self.results[domain].  The return of
\* the request changes only locals of the worker, so it is taken together
\* with the acquisition of the lock.  An exception the worker does not
\* catch ends the thread after the finally clause.
ScanAndStore(w) ==
    /\ wpc[w] = "scan"
    /\ \E o \in Outcomes :
         LET r == ScanDomain(o)
             d == wdomain[w][1]
         IN IF r.raised /\ ~WorkerCatches(r.exc)
            THEN /\ wpc' = [wpc EXCEPT ![w] = "uncaught"]
                 /\ wout' = [wout EXCEPT ![w] = Some(o)]
                 /\ UNCHANGED <<lock, results, writes, wres>>
            ELSE /\ CanAcquire
                 /\ lock' = w
                 /\ results' = Put(results, d, StoredValue(r))
                 /\ writes' = Put(writes, d,
                                  IF d \in DOMAIN writes THEN writes[d] + 1 ELSE 1)
                 /\ wout' = [wout EXCEPT ![w] = Some(o)]
                 /\ wres' = [wres EXCEPT ![w] = Some(r)]
                 /\ wpc' = [wpc EXCEPT ![w] = "locked"]
    /\ UNCHANGED <<moduleVars, configVars, queue, unfinished, total_count, active_count,
                   startVars, wdomain, requests>>

\* if result['status'] == 'active': self.active_count += 1  (try path only),
\* then the lock is released
Release(w) ==
    /\ wpc[w] = "locked"
    /\ active_count' =
          IF ~wres[w][1].raised /\ wres[w][1].value.status = "active"
          THEN active_count + 1 ELSE active_count
    /\ lock' = Free
    /\ wpc' = [wpc EXCEPT ![w] = "taskdone"]
    /\ wdomain' = [wdomain EXCEPT ![w] = None]
    /\ wout' = [wout EXCEPT ![w] = None]
    /\ wres' = [wres EXCEPT ![w] = None]
    /\ UNCHANGED <<moduleVars, configVars, queue, unfinished, total_count, results,
                   startVars, writes, requests>>

\* finally: self.queue.task_done()
TaskDone(w) ==
    /\ wpc[w] \in {"taskdone", "uncaught"}
    /\ unfinished' = unfinished - 1
    /\ wpc' = [wpc EXCEPT ![w] = IF wpc[w] = "uncaught" THEN "crashed" ELSE "get"]
    /\ UNCHANGED <<moduleVars, configVars, queue, total_count, active_count, results, lock,
                   startVars, wdomain, wout, wres, writes, requests>>

Worker(w) ==
    \/ Dequeue(w)
    \/ ScanAndStore(w)
    \/ Release(w)
    \/ TaskDone(w)

Next ==
    \/ Load
    \/ SpawnWorker
    \/ OpenProgress
    \/ ReadLen
    \/ CheckDone
    \/ SaveHeader
    \/ SaveActive
    \/ SaveInactive
    \/ SaveError
    \/ Finish
    \/ \E w \in WorkerIds : Worker(w)

Spec == Init /\ [][Next]_vars

\* Threads are scheduled fairly and every request ends (with a response, an
\* error or the timeout): each step of start() and of each worker that stays
\* possible is eventually taken.
StartStep ==
    \/ Load
    \/ SpawnWorker
    \/ OpenProgress
    \/ ReadLen
    \/ CheckDone
    \/ SaveHeader
    \/ SaveActive
    \/ SaveInactive
    \/ SaveError
    \/ Finish

FairSpec ==
    /\ Spec
    /\ WF_vars(StartStep)
    /\ \A w \in WorkerIds : WF_vars(Worker(w))

\* --------------------------------------------------------------- interrupt
\* A KeyboardInterrupt is raised in the main thread while start() starts its
\* workers or runs its progress loop: start() is left by the exception, with
\* no return value and without reaching _save_results.
Interrupt ==
    /\ pcS \in {"spawn", "readlen", "check"}
    /\ pcS' = "interrupted"
    /\ UNCHANGED <<moduleVars, configVars, queue, unfinished, total_count, active_count,
                   results, lock, ret, spawned, processed, pbar, report,
                   workerVars, writes, requests>>

AtExit_NonDaemon(pc) == pc

\* worker.daemon = True: a worker thread that is still alive ends when the
\* interpreter exits, wherever it is
AtExit(pc) ==
    IF pc \in {"get", "scan", "locked", "taskdone", "uncaught"} THEN "killed" ELSE pc

\* main(): except KeyboardInterrupt: logger.info(...); sys.exit(0)
ProcessExit ==
    /\ pcS = "interrupted"
    /\ pcS' = "exited"
    /\ wpc' = [w \in WorkerIds |-> AtExit(wpc[w])]
    /\ UNCHANGED <<moduleVars, configVars, queue, unfinished, total_count, active_count,
                   results, lock, ret, spawned, processed, pbar, report,
                   wdomain, wout, wres, writes, requests>>

NextInterrupt ==
    \/ Next
    \/ Interrupt
    \/ ProcessExit

SpecInterrupt == Init /\ [][NextInterrupt]_vars

\* ------------------------------------------------- the lock held by start()
\* The same program with `with self.lock:` of the progress loop taken in two
\* steps, so that the thread holding the lock is part of the state when
\* start() reads len(self.results).
AcquireLen ==
    /\ pcS = "readlen"
    /\ CanAcquire
    /\ lock' = MainThread
    /\ pcS' = "readlen_locked"
    /\ UNCHANGED <<moduleVars, configVars, queue, unfinished, total_count, active_count,
                   results, ret, spawned, processed, pbar, report,
                   workerVars, writes, requests>>

ReadLenLocked ==
    /\ pcS = "readlen_locked"
    /\ LET new_processed == Cardinality(DOMAIN results)
       IN IF new_processed > processed
          THEN /\ pbar' = Some([pbar[1] EXCEPT !.n = @ + (new_processed - processed)])
               /\ processed' = new_processed
          ELSE UNCHANGED <<pbar, processed>>
    /\ lock' = Free
    /\ pcS' = "check"
    /\ UNCHANGED <<moduleVars, configVars, queue, unfinished, total_count, active_count,
                   results, ret, spawned, report, workerVars, writes, requests>>

NextLock ==
    \/ Load
    \/ SpawnWorker
    \/ OpenProgress
    \/ AcquireLen
    \/ ReadLenLocked
    \/ CheckDone
    \/ SaveHeader
    \/ SaveActive
    \/ SaveInactive
    \/ SaveError
    \/ Finish
    \/ \E w \in WorkerIds : Worker(w)

SpecLock == Init /\ [][NextLock]_vars

\* The loader by itself, on every file of LoadFiles, up to the start of the
\* worker threads.
InitLoad == file \in LoadFiles /\ Constructed /\ OnlyScanner

NextLoad ==
    \/ Load
    \/ SpawnWorker

SpecLoad == InitLoad /\ [][NextLoad]_vars

\* ------------------------------------------------------------- TorMultiHop
scannerVars == <<configVars, queue, unfinished, total_count, active_count,
                 results, lock, startVars, workerVars, writes, requests>>

\* the scanner is constructed and never started
exceptHopVars == <<scannerVars, chatVars, p2pVars, switcherVars>>
exceptChatVars == <<scannerVars, hopVars, p2pVars, switcherVars>>
exceptP2PVars == <<scannerVars, hopVars, chatVars, switcherVars>>
exceptSwitcherVars == <<scannerVars, hopVars, chatVars, p2pVars>>

ScannerUnused ==
    /\ file = [kind |-> "missing", lines |-> <<>>]
    /\ threads = 1
    /\ Constructed

BasePort == 9050

\* self.proxy_ports[i], self.control_ports[i]
ProxyPort(i) == BasePort + i
ControlPort(i) == BasePort + 100 + i

Hops == 0..(num_hops - 1)

\* the torrc of instance i, made from _create_torrc_template without or
\* with the Socks5Proxy line of the template
Torrc(i, chained) ==
    {<<"SocksPort", ProxyPort(i)>>, <<"ControlPort", ControlPort(i)>>}
    \cup (IF chained /\ i > 0 THEN {<<"Socks5Proxy", ProxyPort(i - 1)>>} ELSE {})

Logged(m) == [msg |-> m, arg |-> <<>>]
LoggedWith(m, a) == [msg |-> m, arg |-> <<a>>]

\* TorMultiHop(num_hops), and the Tor instances as they are found
InitMultiHop ==
    /\ num_hops \in 1..MaxHops
    /\ \E chained \in BOOLEAN : torrc = [i \in Hops |-> Torrc(i, chained)]
    /\ mhPc = "start"
    /\ mhI = 0
    /\ mhTest = None
    /\ mhLog = {}
    /\ mhRet = None

InitHop == ScannerUnused /\ InitMultiHop /\ NoChat /\ NoP2P /\ NoSwitcher

\* self.logger.info("Starting Tor Multi-Hop Proxy ...")
MhStart ==
    /\ mhPc = "start"
    /\ mhLog' = mhLog \cup {LoggedWith("Starting", num_hops)}
    /\ mhI' = 0
    /\ mhPc' = "check"
    /\ UNCHANGED <<exceptHopVars, num_hops, torrc, mhTest, mhRet>>

\* What the check of one instance finds: connect_ex gives an error code,
\* the control connection or authenticate() raises, or both succeed.
CheckOutcomes == {"not_found", "check_failed", "running"}

\* One round of the loop of _check_tor_config, or its `return True`; a failed
\* check returns False and start() logs the error and returns False.
CheckTorConfig ==
    /\ mhPc = "check"
    /\ IF mhI >= num_hops
       THEN /\ mhPc' = "create"
            /\ mhI' = num_hops - 1
            /\ mhLog' = mhLog \cup {Logged("Setting up proxy chain")}
            /\ UNCHANGED mhRet
       ELSE \E o \in CheckOutcomes :
              IF o = "running"
              THEN /\ mhLog' = mhLog \cup {LoggedWith("running", mhI + 1)}
                   /\ mhI' = mhI + 1
                   /\ UNCHANGED <<mhPc, mhRet>>
              ELSE /\ mhLog' = mhLog \cup {LoggedWith(o, mhI + 1),
                                          Logged("Multiple Tor instances not configured")}
                   /\ mhRet' = Some(FALSE)
                   /\ mhPc' = "returned"
                   /\ UNCHANGED mhI
    /\ UNCHANGED <<exceptHopVars, num_hops, torrc, mhTest>>

ConfigureHop_SetConf(conf, i) == conf \cup {<<"Socks5Proxy", ProxyPort(i - 1)>>}

\* what the body of `with Controller.from_port(...)` does to the
\* configuration of instance i: it builds socks_config and logs it
ConfigureHop(conf, i) == conf

WouldAdd(i) == LoggedWith("Would add to torrc", <<"Socks5Proxy", ProxyPort(i - 1)>>)

\* One round of the loop of _create_proxy_chain, or the end of the loop.  An
\* exception of the control connection leaves _create_proxy_chain and is
\* handled by start(), which returns False.
CreateProxyChain ==
    /\ mhPc = "create"
    /\ IF mhI < 1
       THEN /\ mhLog' = mhLog \cup {Logged("Proxy chain configured")}
            /\ mhPc' = "test"
            /\ UNCHANGED <<mhI, torrc, mhRet>>
       ELSE \E connected \in BOOLEAN :
              IF connected
              THEN /\ torrc' = [torrc EXCEPT ![mhI] = ConfigureHop(@, mhI)]
                   /\ mhLog' = mhLog \cup {LoggedWith("Configuring", mhI + 1),
                                          WouldAdd(mhI)}
                   /\ mhI' = mhI - 1
                   /\ UNCHANGED <<mhPc, mhRet>>
              ELSE /\ mhLog' = mhLog \cup {Logged("Error setting up multi-hop proxy chain")}
                   /\ mhRet' = Some(FALSE)
                   /\ mhPc' = "returned"
                   /\ UNCHANGED <<mhI, torrc>>
    /\ UNCHANGED <<exceptHopVars, num_hops, mhTest>>

\* What the request of _test_chain does: it raises, or the answer says
\* IsTor false or true.
TestOutcomes == {"failed", "not_tor", "working"}

\* return value of _test_chain
TestChain(o) == o = "working"

TestLog(o) == {Logged("Testing proxy chain"), Logged(o)}

\* self._test_chain() after the chain is set up
FirstTest ==
    /\ mhPc = "test"
    /\ \E o \in TestOutcomes :
          /\ mhTest' = Some(TestChain(o))
          /\ mhLog' = mhLog \cup TestLog(o)
    /\ mhPc' = "ready"
    /\ UNCHANGED <<exceptHopVars, num_hops, torrc, mhI, mhRet>>

\* self.logger.info("Multi-hop proxy chain is ready") and the line after it
AnnounceReady ==
    /\ mhPc = "ready"
    /\ mhLog' = mhLog \cup {Logged("Multi-hop proxy chain is ready"),
                           LoggedWith("Configure your application", ProxyPort(num_hops - 1))}
    /\ mhPc' = "keepalive"
    /\ UNCHANGED <<exceptHopVars, num_hops, torrc, mhI, mhTest, mhRet>>

\* while True: time.sleep(60); self._test_chain()
KeepAlive ==
    /\ mhPc = "keepalive"
    /\ \E o \in TestOutcomes :
          /\ mhTest' = Some(TestChain(o))
          /\ mhLog' = mhLog \cup TestLog(o)
    /\ UNCHANGED <<exceptHopVars, num_hops, torrc, mhPc, mhI, mhRet>>

\* except KeyboardInterrupt: ... return True
MhShutdown ==
    /\ mhPc = "keepalive"
    /\ mhLog' = mhLog \cup {Logged("Shutting down Tor Multi-Hop Proxy")}
    /\ mhRet' = Some(TRUE)
    /\ mhPc' = "returned"
    /\ UNCHANGED <<exceptHopVars, num_hops, torrc, mhI, mhTest>>

NextHop ==
    \/ MhStart
    \/ CheckTorConfig
    \/ CreateProxyChain
    \/ FirstTest
    \/ AnnounceReady
    \/ KeepAlive
    \/ MhShutdown

SpecHop == InitHop /\ [][NextHop]_vars

\* ------------------------------------------------------- start_chat_server
\* The server listens; a peer is a remote program that connects, writes at
\* most one message and may close its end at any time.
InitChat == ScannerUnused /\ NoMultiHop /\ NoChat /\ NoP2P /\ NoSwitcher

\* client, addr = server.accept(); clients.append(client); Thread(...).start()
Accept ==
    /\ accepted < MaxClients
    /\ LET c == accepted + 1
       IN /\ accepted' = c
          /\ sock' = [sock EXCEPT ![c] = "open"]
          /\ peer' = [peer EXCEPT ![c] = "connected"]
          /\ clients' = Append(clients, c)
          /\ hpc' = [hpc EXCEPT ![c] = "recv"]
    /\ UNCHANGED <<exceptChatVars, inbox, hidx, hcur, delivered, stayed, sendFailed>>

\* the peer writes its message
PeerSend(c) ==
    /\ peer[c] = "connected"
    /\ inbox[c] = "unsent"
    /\ inbox' = [inbox EXCEPT ![c] = "pending"]
    /\ UNCHANGED <<exceptChatVars, clients, accepted, sock, peer, hpc, hidx, hcur,
                   delivered, stayed, sendFailed>>

\* the peer closes its end of the connection
PeerClose(c) ==
    /\ peer[c] = "connected"
    /\ peer' = [peer EXCEPT ![c] = "gone"]
    /\ stayed' = [h \in ClientIds |-> stayed[h] \ {c}]
    /\ UNCHANGED <<exceptChatVars, clients, accepted, sock, inbox, hpc, hidx, hcur,
                   delivered, sendFailed>>

\* message = client_socket.recv(1024).decode('utf-8'): a message starts the
\* for loop; the empty string of a closed connection (or the exception of a
\* reset one) leaves the while loop.
Recv(c) ==
    /\ hpc[c] = "recv"
    /\ IF inbox[c] = "pending"
       THEN /\ inbox' = [inbox EXCEPT ![c] = "read"]
            /\ hidx' = [hidx EXCEPT ![c] = 0]
            /\ hpc' = [hpc EXCEPT ![c] = "next"]
            /\ stayed' = [stayed EXCEPT ![c] =
                  {r \in Range(clients) \ {c} : peer[r] = "connected"}]
            /\ sendFailed' = [sendFailed EXCEPT ![c] = FALSE]
       ELSE /\ peer[c] = "gone"
            /\ hpc' = [hpc EXCEPT ![c] = "remove"]
            /\ UNCHANGED <<inbox, hidx, stayed, sendFailed>>
    /\ UNCHANGED <<exceptChatVars, clients, accepted, sock, peer, hcur, delivered>>

\* next() of the iterator of a list: the element at the iterator's index in
\* the list as it is now, StopIteration when the index is past its end
ListNext(l, i) ==
    IF i < Len(l) THEN [stop |-> FALSE, item |-> l[i + 1]]
    ELSE [stop |-> TRUE, item |-> 0]

\* for c in clients: if c != client_socket
IterNext(c) ==
    /\ hpc[c] = "next"
    /\ LET n == ListNext(clients, hidx[c])
       IN IF n.stop
          THEN /\ hpc' = [hpc EXCEPT ![c] = "recv"]
               /\ hcur' = [hcur EXCEPT ![c] = 0]
               /\ UNCHANGED hidx
          ELSE /\ hidx' = [hidx EXCEPT ![c] = @ + 1]
               /\ hcur' = [hcur EXCEPT ![c] = n.item]
               /\ hpc' = [hpc EXCEPT ![c] = IF n.item # c THEN "send" ELSE "next"]
    /\ UNCHANGED <<exceptChatVars, clients, accepted, sock, peer, inbox,
                   delivered, stayed, sendFailed>>

\* What c.send(...) can do: on a socket the server has closed it raises; on
\* a connection whose peer is gone it raises or hands the bytes to the
\* system; otherwise it sends.
SendOutcomes(r) ==
    IF sock[r] = "closed" THEN {"raises"}
    ELSE IF peer[r] = "gone" THEN {"raises", "sent"}
    ELSE {"sent"}

\* c.send(message.encode('utf-8')); except: break
Send(c) ==
    /\ hpc[c] = "send"
    /\ \E o \in SendOutcomes(hcur[c]) :
          IF o = "sent"
          THEN /\ delivered' = delivered \cup {<<c, hcur[c]>>}
               /\ hpc' = [hpc EXCEPT ![c] = "next"]
               /\ UNCHANGED sendFailed
          ELSE /\ sendFailed' = [sendFailed EXCEPT ![c] = TRUE]
               /\ hpc' = [hpc EXCEPT ![c] = "remove"]
               /\ UNCHANGED delivered
    /\ UNCHANGED <<exceptChatVars, clients, accepted, sock, peer, inbox, hidx, hcur,
                   stayed>>

\* list.remove(x): the list without the first element equal to x
RECURSIVE ListRemove(_, _)
ListRemove(l, x) ==
    IF l = <<>> THEN <<>>
    ELSE IF Head(l) = x THEN Tail(l)
    ELSE <<Head(l)>> \o ListRemove(Tail(l), x)

\* clients.remove(client_socket)
Remove(c) ==
    /\ hpc[c] = "remove"
    /\ clients' = ListRemove(clients, c)
    /\ hpc' = [hpc EXCEPT ![c] = "close"]
    /\ stayed' = [h \in ClientIds |-> stayed[h] \ {c}]
    /\ UNCHANGED <<exceptChatVars, accepted, sock, peer, inbox, hidx, hcur,
                   delivered, sendFailed>>

\* client_socket.close()
Close(c) ==
    /\ hpc[c] = "close"
    /\ sock' = [sock EXCEPT ![c] = "closed"]
    /\ peer' = [peer EXCEPT ![c] = "gone"]
    /\ hpc' = [hpc EXCEPT ![c] = "done"]
    /\ UNCHANGED <<exceptChatVars, clients, accepted, inbox, hidx, hcur,
                   delivered, stayed, sendFailed>>

HandleClient(c) ==
    \/ Recv(c)
    \/ IterNext(c)
    \/ Send(c)
    \/ Remove(c)
    \/ Close(c)

NextChat ==
    \/ Accept
    \/ \E c \in ClientIds : PeerSend(c)
    \/ \E c \in ClientIds : PeerClose(c)
    \/ \E c \in ClientIds : HandleClient(c)

SpecChat == InitChat /\ [][NextChat]_vars

\* -------------------------------------------------------- start_p2p_server
\* What recv(1024) can return for peer c: nothing (the peer closed), or one
\* or two bytes, each byte marked with the peer it comes from.
Payloads(c) == {<<>>, <<c>>, <<c, c>>}

InitP2P == ScannerUnused /\ NoMultiHop /\ NoChat /\ NoP2P /\ NoSwitcher

\* client, addr = server.accept(); Thread(target=handle_client, ...).start()
P2PAccept ==
    /\ p2pAccepted < MaxPeers
    /\ p2pAccepted' = p2pAccepted + 1
    /\ ppc' = [ppc EXCEPT ![p2pAccepted + 1] = "recv"]
    /\ UNCHANGED <<exceptP2PVars, received_file, file_data, fbuf>>

\* file_data = client_socket.recv(1024); an exception of recv ends the thread
P2PRecv(c) ==
    /\ ppc[c] = "recv"
    /\ \/ \E d \in Payloads(c) :
             /\ file_data' = [file_data EXCEPT ![c] = d]
             /\ ppc' = [ppc EXCEPT ![c] = "open"]
       \/ /\ ppc' = [ppc EXCEPT ![c] = "crashed"]
          /\ UNCHANGED file_data
    /\ UNCHANGED <<exceptP2PVars, received_file, p2pAccepted, fbuf>>

\* open("received_file", "wb"): the file is truncated, the new file object
\* is at offset 0 with an empty buffer
P2POpen(c) ==
    /\ ppc[c] = "open"
    /\ received_file' = <<>>
    /\ fbuf' = [fbuf EXCEPT ![c] = <<>>]
    /\ ppc' = [ppc EXCEPT ![c] = "write"]
    /\ UNCHANGED <<exceptP2PVars, p2pAccepted, file_data>>

\* file.write(file_data): at most 1024 bytes, kept in the buffer of the
\* file object
P2PWrite(c) ==
    /\ ppc[c] = "write"
    /\ fbuf' = [fbuf EXCEPT ![c] = fbuf[c] \o file_data[c]]
    /\ ppc' = [ppc EXCEPT ![c] = "close"]
    /\ UNCHANGED <<exceptP2PVars, received_file, p2pAccepted, file_data>>

\* the bytes b written at offset 0 of a file holding f
WriteAtStart(f, b) == b \o SubSeq(f, Len(b) + 1, Len(f))

\* end of the with block: the buffer is flushed at the offset of the file
\* object and the file is closed; then print and client_socket.close()
P2PClose(c) ==
    /\ ppc[c] = "close"
    /\ received_file' = WriteAtStart(received_file, fbuf[c])
    /\ fbuf' = [fbuf EXCEPT ![c] = <<>>]
    /\ ppc' = [ppc EXCEPT ![c] = "done"]
    /\ UNCHANGED <<exceptP2PVars, p2pAccepted, file_data>>

P2PHandleClient(c) ==
    \/ P2PRecv(c)
    \/ P2POpen(c)
    \/ P2PWrite(c)
    \/ P2PClose(c)

NextP2P ==
    \/ P2PAccept
    \/ \E c \in PeerIds : P2PHandleClient(c)

SpecP2P == InitP2P /\ [][NextP2P]_vars

\* ---------------------------------------------------- AutoIdentitySwitcher
InitSwitcher ==
    /\ ScannerUnused /\ NoMultiHop /\ NoChat /\ NoP2P
    /\ identity_count = 0
    /\ running = FALSE
    /\ swLock = "free"
    /\ asPc = "start"
    /\ asRet = None
    /\ spc = [t \in Callers |-> "idle"]
    /\ sreg = [t \in Callers |-> 0]
    /\ swRet = [t \in Callers |-> None]
    /\ calls = 0
    /\ sent = 0

\* self.running = True, before the control port is tested
AsStart ==
    /\ asPc = "start"
    /\ running' = TRUE
    /\ asPc' = "test"
    /\ UNCHANGED <<exceptSwitcherVars, identity_count, swLock, asRet, spc, sreg,
                   swRet, calls, sent>>

\* if not self._test_tor_control(): return False; otherwise the two threads
\* are started and start() waits in `while self.running`
AsTestTorControl ==
    /\ asPc = "test"
    /\ \E connected \in BOOLEAN :
          IF connected
          THEN asPc' = "wait" /\ UNCHANGED asRet
          ELSE asPc' = "returned" /\ asRet' = Some(FALSE)
    /\ UNCHANGED <<exceptSwitcherVars, identity_count, running, swLock, spc, sreg,
                   swRet, calls, sent>>

\* except KeyboardInterrupt: self.running = False; return True
AsStop ==
    /\ asPc = "wait"
    /\ running' = FALSE
    /\ asRet' = Some(TRUE)
    /\ asPc' = "returned"
    /\ UNCHANGED <<exceptSwitcherVars, identity_count, swLock, spc, sreg,
                   swRet, calls, sent>>

\* the switching thread exists once start() has started it
LoopStarted == asPc \in {"wait", "returned"} /\ asRet # Some(FALSE)

\* `while self.running: self._switch_identity()` in the switching thread, or
\* a call of switch_identity_now() by a user of the object
CallSwitchIdentity(t) ==
    /\ spc[t] = "idle"
    /\ calls < MaxSwitches
    /\ t = "loop" => (LoopStarted /\ running)
    /\ calls' = calls + 1
    /\ spc' = [spc EXCEPT ![t] = "connect"]
    /\ UNCHANGED <<exceptSwitcherVars, identity_count, running, swLock, asPc, asRet,
                   sreg, swRet, sent>>

\* Controller.from_port(...) and controller.authenticate(...): an exception
\* is caught in _switch_identity, which returns False
Connect(t) ==
    /\ spc[t] = "connect"
    /\ \E ok \in BOOLEAN :
          IF ok
          THEN spc' = [spc EXCEPT ![t] = "signal"] /\ UNCHANGED swRet
          ELSE /\ spc' = [spc EXCEPT ![t] = "idle"]
               /\ swRet' = [swRet EXCEPT ![t] = Some(FALSE)]
    /\ UNCHANGED <<exceptSwitcherVars, identity_count, running, swLock, asPc, asRet,
                   sreg, calls, sent>>

\* controller.signal(Signal.NEWNYM)
SignalNewnym(t) ==
    /\ spc[t] = "signal"
    /\ \E ok \in BOOLEAN :
          IF ok
          THEN /\ sent' = sent + 1
               /\ spc' = [spc EXCEPT ![t] = "acquire"]
               /\ UNCHANGED swRet
          ELSE /\ spc' = [spc EXCEPT ![t] = "idle"]
               /\ swRet' = [swRet EXCEPT ![t] = Some(FALSE)]
               /\ UNCHANGED sent
    /\ UNCHANGED <<exceptSwitcherVars, identity_count, running, swLock, asPc, asRet,
                   sreg, calls>>

SwCanAcquire_NoLock == TRUE

\* with self.lock
SwCanAcquire == swLock = "free"

AcquireSw(t) ==
    /\ spc[t] = "acquire"
    /\ SwCanAcquire
    /\ swLock' = t
    /\ spc' = [spc EXCEPT ![t] = "load"]
    /\ UNCHANGED <<exceptSwitcherVars, identity_count, running, asPc, asRet,
                   sreg, swRet, calls, sent>>

\* self.identity_count += 1 reads the attribute ...
LoadCount(t) ==
    /\ spc[t] = "load"
    /\ sreg' = [sreg EXCEPT ![t] = identity_count]
    /\ spc' = [spc EXCEPT ![t] = "store"]
    /\ UNCHANGED <<exceptSwitcherVars, identity_count, running, swLock, asPc, asRet,
                   swRet, calls, sent>>

\* ... and assigns the sum to it
StoreCount(t) ==
    /\ spc[t] = "store"
    /\ identity_count' = sreg[t] + 1
    /\ spc' = [spc EXCEPT ![t] = "release"]
    /\ UNCHANGED <<exceptSwitcherVars, running, swLock, asPc, asRet, sreg,
                   swRet, calls, sent>>

\* the lock is released; self.logger.info(...); return True
ReleaseSw(t) ==
    /\ spc[t] = "release"
    /\ swLock' = "free"
    /\ swRet' = [swRet EXCEPT ![t] = Some(TRUE)]
    /\ spc' = [spc EXCEPT ![t] = "idle"]
    /\ UNCHANGED <<exceptSwitcherVars, identity_count, running, asPc, asRet,
                   sreg, calls, sent>>

SwitchIdentity(t) ==
    \/ CallSwitchIdentity(t)
    \/ Connect(t)
    \/ SignalNewnym(t)
    \/ AcquireSw(t)
    \/ LoadCount(t)
    \/ StoreCount(t)
    \/ ReleaseSw(t)

NextSwitcher ==
    \/ AsStart
    \/ AsTestTorControl
    \/ AsStop
    \/ \E t \in Callers : SwitchIdentity(t)

SpecSwitcher == InitSwitcher /\ [][NextSwitcher]_vars

\* ------------------------------------------------------------- properties
\* the targets the loader put on the queue, in file order
Loaded == ParseLines(file.lines)

LoadedOk == file.kind = "ok"

\* start() has left its progress loop: it writes the report, logs, returns True
ReportSteps == {"save_header", "save_active", "save_inactive", "save_error", "log"}

LeftLoop == pcS \in ReportSteps \/ (pcS = "returned" /\ ret = Some(TRUE))

Started == 1..spawned

\* requests started by _scan_domain whose result is not stored yet
InFlight == {w \in WorkerIds : wpc[w] = "scan"}

AllExited == queue = <<>> /\ \A w \in Started : wpc[w] = "dead"

\* the response or exception of worker w's current request leads
\* _scan_domain to raise
ScanRaises(o) == ScanDomain(o).raised

IsRequestException(o) == o.kind = "raise" /\ o.exc.class \in {"Timeout", "ConnectionError"}

InactiveResult ==
    [status |-> "inactive", response_code |-> <<>>, title |-> <<>>,
     server |-> <<>>, content_type |-> <<>>, links |-> 0]

\* C1: for a non-empty list of loaded targets, when start() is at its report
\* step (and from then on) the keys of the results map are exactly the
\* distinct loaded targets.
C1_ResultKeysAreLoadedTargets ==
    (LoadedOk /\ Loaded # <<>> /\ LeftLoop) => DOMAIN results = Range(Loaded)

C1_Witness ==
    /\ pcS = "save_header"
    /\ threads = 2
    /\ Len(Loaded) = 2
    /\ Cardinality(DOMAIN results) = 2

\* C2: no key of the results map is assigned a second time during a scan.
C2_EachKeyWrittenOnce == \A d \in DOMAIN writes : writes[d] <= 1

\* C3: at most self.threads requests are in flight at any time.
C3_InFlightAtMostThreads == Cardinality(InFlight) <= threads

C3_Witness == threads = 2 /\ Cardinality(InFlight) = 2

\* C4 as stated, for a scan that has targets: start() has left its progress
\* loop only if the queue is empty and every worker thread has exited.
C4_LeftLoopOnlyWhenAllExited == (LeftLoop /\ total_count > 0) => AllExited

\* C4 amended: start() leaves its progress loop only when the queue is empty
\* and no worker holds a target or the lock (workers may still be alive,
\* about to call task_done or to see the queue empty); and a check made when
\* the queue is empty and every worker is dead leaves the loop.
C4_LeftLoopWhenWorkDone ==
    /\ [](LeftLoop =>
            /\ queue = <<>>
            /\ lock = Free
            /\ \A w \in Started : wpc[w] \in {"get", "taskdone", "dead"})
    /\ [][(pcS = "check" /\ AllExited /\ pcS' # pcS) => pcS' = "save_header"]_vars

C4_Witness ==
    /\ pcS = "save_header"
    /\ total_count = 2
    /\ \E w \in Started : wpc[w] = "taskdone"

\* C5: under fair scheduling, with every request ending, a worker exits only
\* on seeing the queue empty, and for a loaded file eventually all workers
\* have exited, the queue is empty and start() has returned True.
C5_WorkersExitAndStartReturnsTrue ==
    /\ [][\A w \in WorkerIds :
            (wpc[w] # "dead" /\ wpc'[w] = "dead") => queue = <<>>]_vars
    /\ LoadedOk =>
         <>[](/\ pcS = "returned"
              /\ ret = Some(TRUE)
              /\ queue = <<>>
              /\ \A w \in 1..threads : wpc[w] = "dead")

C5_Witness ==
    /\ pcS = "returned"
    /\ ret = Some(TRUE)
    /\ threads = 2
    /\ total_count = 2
    /\ \A w \in 1..threads : wpc[w] = "dead"

\* C6: when _scan_domain raises an exception that is no RequestException the
\* worker stores an entry with status 'error' and a message for that target
\* and stays alive; no other worker is changed by it, no worker thread ever
\* dies of an exception, and every loaded target has a result when start()
\* has returned.
C6_UnexpectedExceptionIsRecorded ==
    /\ [][\A w \in WorkerIds :
            (wpc[w] = "scan" /\ wpc'[w] # "scan" /\ ScanRaises(wout'[w][1])) =>
               /\ wpc'[w] = "locked"
               /\ results'[wdomain[w][1]].status = "error"
               /\ results'[wdomain[w][1]].error # None
               /\ \A v \in WorkerIds \ {w} : wpc'[v] = wpc[v]]_vars
    /\ [](\A w \in WorkerIds : wpc[w] \notin {"uncaught", "crashed"})
    /\ []((pcS = "returned" /\ ret = Some(TRUE)) => DOMAIN results = Range(Loaded))

C6_Witness ==
    /\ threads = 1
    /\ Cardinality(DOMAIN results) = 2
    /\ \E d \in DOMAIN results : d = Head(Loaded) /\ results[d].status = "error"
    /\ wpc[1] = "get"

\* C7: a request that ends in a RequestException (timeout, connection error)
\* is stored as the inactive result with every field empty and link count 0,
\* and the worker's critical section leaves active_count as it was.
C7_RequestErrorIsInactive ==
    /\ [][\A w \in WorkerIds :
            (wpc[w] = "scan" /\ wpc'[w] # "scan" /\ IsRequestException(wout'[w][1])) =>
               /\ wpc'[w] = "locked"
               /\ results'[wdomain[w][1]] = InactiveResult
               /\ active_count' = active_count]_vars
    /\ [][\A w \in WorkerIds :
            (wpc[w] = "locked" /\ wpc'[w] # "locked" /\ IsRequestException(wout[w][1])) =>
               active_count' = active_count]_vars

C7_Witness ==
    \E w \in WorkerIds :
        /\ wpc[w] = "taskdone"
        /\ active_count = 0
        /\ \E d \in DOMAIN results : results[d] = InactiveResult

\* the stored entry for worker w's answered request, while w holds the lock
Html200(o) ==
    /\ o.kind = "response"
    /\ o.status_code = 200
    /\ o.content_type # None
    /\ Contains(o.content_type[1], <<"text/html">>)

TitleOf(o, r) ==
    /\ "title" \in DOMAIN r
    /\ r.title # None
    /\ IF o.body.title = None
       THEN r.title = Some(<<"No title">>)
       ELSE /\ Contains(o.body.title[1], r.title[1])
            /\ r.title[1] = <<>> \/ (r.title[1][1] \notin Whitespace
                                     /\ r.title[1][Len(r.title[1])] \notin Whitespace)

ActiveWithTitle(w) ==
    /\ wpc[w] = "locked"
    /\ results[wdomain[w][1]].status = "active"
    /\ results[wdomain[w][1]].response_code = Some(200)
    /\ TitleOf(wout[w][1], results[wdomain[w][1]])

\* C8 as stated: every target that answers HTTP 200 with an HTML content
\* type is stored as active, code 200, with a title (the title text, or
\* 'No title').
C8_Html200IsActiveWithTitle ==
    \A w \in WorkerIds :
        (wout[w] # None /\ Html200(wout[w][1])) => ActiveWithTitle(w)

\* C8 amended: that holds when the body parses; when parsing the body raises
\* the entry has status 'error'.
C8_ParsedHtml200IsActiveWithTitle ==
    \A w \in WorkerIds :
        (wout[w] # None /\ Html200(wout[w][1])) =>
            IF wout[w][1].body.parse_exc = None
            THEN ActiveWithTitle(w)
            ELSE wpc[w] = "locked" /\ results[wdomain[w][1]].status = "error"

C8_Witness ==
    \E w \in WorkerIds :
        /\ wout[w] # None
        /\ Html200(wout[w][1])
        /\ wout[w][1].body.title # None
        /\ ActiveWithTitle(w)

\* C9: with a missing or unreadable input file start() returns False and
\* nothing else happens: no worker is started, nothing is put on or taken
\* off the queue, the results map stays empty, no report is written.
C9_SetupErrorAborts ==
    ~LoadedOk =>
        /\ pcS \in {"load", "returned"}
        /\ pcS = "returned" => ret = Some(FALSE)
        /\ spawned = 0
        /\ \A w \in WorkerIds : wpc[w] = "unstarted"
        /\ queue = <<>>
        /\ unfinished = 0
        /\ results = EmptyMap
        /\ writes = EmptyMap
        /\ report = None

C9_Witness == file.kind = "badbytes" /\ pcS = "returned" /\ ret = Some(FALSE)

\* C10: once the file is loaded no worker thread ends by an exception, every
\* failed request is stored as an entry (inactive or error) of its target,
\* and start() returns nothing but True.
C10_NoFailurePropagates ==
    LoadedOk =>
        /\ \A w \in WorkerIds : wpc[w] \notin {"uncaught", "crashed"}
        /\ \A w \in WorkerIds :
              (wout[w] # None /\ wout[w][1].kind = "raise") =>
                 /\ wpc[w] = "locked"
                 /\ results[wdomain[w][1]].status \in {"inactive", "error"}
        /\ pcS = "returned" => ret = Some(TRUE)

C10_Witness ==
    /\ pcS = "returned"
    /\ ret = Some(TRUE)
    /\ Cardinality(DOMAIN results) = 2
    /\ \E d \in DOMAIN results : results[d].status = "inactive"
    /\ \E d \in DOMAIN results : results[d].status = "error"

\* a line the loader must accept: not empty after stripping, ".onion" last
Accepts(l) ==
    LET d == RStrip(LStrip(l)) IN d # <<>> /\ d[Len(d)] = ".onion"

IsSuffix(s, q) == Len(q) >= Len(s) /\ \A i \in 1..Len(s) : q[Len(q) - Len(s) + i] = s[i]

\* q holds, in order, one target per accepted line of the file
HoldsAcceptedLines(q) ==
    LET acc == SelectSeq(file.lines, Accepts)
    IN /\ Len(q) = Len(acc)
       /\ \A i \in 1..Len(acc) : IsSuffix(RStrip(LStrip(acc[i])), q[i])

ScenarioFile == <<LineAbc, LineBlank, LineDef>>

\* C11: the loader enqueues, in file order, one target per line that is
\* non-empty after stripping and ends with ".onion", and nothing else;
\* total_count is their number; the queue is complete when the first worker
\* is started; the file abc.onion / blank / def.onion gives 2 and 2.
C11_LoaderEnqueuesAcceptedLines ==
    /\ [][(pcS = "load" /\ pcS' # "load") =>
             HoldsAcceptedLines(queue') /\ total_count' = Len(queue')]_vars
    /\ [][(spawned = 0 /\ spawned' = 1) =>
             HoldsAcceptedLines(queue) /\ total_count = Len(queue)]_vars
    /\ []((file.lines = ScenarioFile /\ pcS = "spawn") =>
             total_count = 2 /\ Len(queue) = 2)

C11_Witness ==
    /\ file.lines = ScenarioFile
    /\ spawned = 1
    /\ total_count = 2
    /\ queue = <<<<"http", "://", "abc", ".onion">>, <<"http", "://", "def", ".onion">>>>

IsPrefix(p, d) == Len(d) >= Len(p) /\ \A i \in 1..Len(p) : d[i] = p[i]

HasScheme(d) == IsPrefix(<<"http", "://">>, d) \/ IsPrefix(<<"http", "s", "://">>, d)

\* C12: every target on the queue starts with "http://" or "https://".
C12_EveryTargetHasScheme == \A i \in DOMAIN queue : HasScheme(queue[i])

Count(q, d) == Cardinality({i \in DOMAIN q : q[i] = d})

Requests(d) == IF d \in DOMAIN requests THEN requests[d] ELSE 0

Writes(d) == IF d \in DOMAIN writes THEN writes[d] ELSE 0

Scanning(d) == {w \in WorkerIds : wpc[w] = "scan" /\ wdomain[w] = Some(d)}

\* C13: no retry.  Every element put on the queue is taken off at most once,
\* by one worker, which makes one request for it and stores one result: for
\* each target the requests made plus its occurrences still queued equal its
\* occurrences in the file, and the requests made equal the results stored
\* plus the requests in flight; after the load the queue changes only by
\* losing its head to exactly one worker.
C13_NoRetry ==
    /\ []((LoadedOk /\ pcS # "load") =>
            \A d \in Range(Loaded) :
                /\ Requests(d) + Count(queue, d) = Count(Loaded, d)
                /\ Requests(d) = Writes(d) + Cardinality(Scanning(d)))
    /\ [][pcS # "load" =>
            \/ queue' = queue
            \/ /\ queue # <<>>
               /\ queue' = Tail(queue)
               /\ Cardinality({w \in WorkerIds :
                      /\ wpc[w] = "get"
                      /\ wpc'[w] = "scan"
                      /\ wdomain'[w] = Some(Head(queue))}) = 1]_vars

C13_Witness ==
    /\ queue = <<>>
    /\ total_count = 2
    /\ \A w \in Started : wpc[w] = "dead"
    /\ \E d \in DOMAIN results :
          results[d].status \in {"inactive", "error"} /\ Requests(d) = 1

Stopped == pcS \in {"interrupted", "exited"}

\* C14 as stated: once an interrupt has stopped start(), no worker takes a
\* new target off the queue, and a request in flight stays in flight until
\* it ends with its response, its error or its timeout.
C14_StopKeepsQueueAndRequests ==
    [][Stopped =>
         /\ queue' = queue
         /\ \A w \in WorkerIds :
               wpc[w] = "scan" => wpc'[w] \in {"scan", "locked", "uncaught"}]_vars

\* C14 amended: an interrupted start() returns nothing and writes no report;
\* the workers are not stopped by it, and when main() exits the process on
\* the interrupt every worker thread still alive ends where it is, a request
\* in flight included.
C14_InterruptEndsWorkersAtExit ==
    /\ [](Stopped => ret = None /\ report = None)
    /\ [](pcS = "exited" =>
            \A w \in WorkerIds : wpc[w] \in {"unstarted", "dead", "killed"})
    /\ [][(pcS = "interrupted" /\ pcS' = "exited") =>
            \A w \in WorkerIds :
                wpc[w] \in {"get", "scan", "locked", "taskdone"} => wpc'[w] = "killed"]_vars

C14_Witness ==
    /\ pcS = "exited"
    /\ queue # <<>>
    /\ \E w \in WorkerIds :
          wpc[w] = "killed" /\ wdomain[w] # None /\ wdomain[w][1] \notin DOMAIN results

\* positions at which the next step of start() reads self.results
ReportReads == {"save_active", "save_inactive", "save_error"}

\* threads inside a piece of code that reads or writes self.results
Accessing ==
    {w \in WorkerIds : wpc[w] = "locked"}
    \cup (IF pcS \in ReportReads \cup {"readlen_locked"} THEN {MainThread} ELSE {})

\* C15 as stated: a worker that writes the map, the progress loop that reads
\* its length and the report writer that reads its items each hold self.lock
\* while they do.
C15_EveryAccessHoldsLock == \A t \in Accessing : lock = t

\* C15 amended: the workers and the progress loop hold the lock when they
\* access the map; the report writer does not take it, and reads the map
\* when the lock is free, the queue empty and no worker scanning or in its
\* critical section; at most one thread accesses the map at any time.
C15_LockOrQuiescence ==
    /\ \A w \in WorkerIds : wpc[w] = "locked" => lock = w
    /\ pcS = "readlen_locked" => lock = MainThread
    /\ pcS \in ReportReads =>
          /\ lock = Free
          /\ queue = <<>>
          /\ \A w \in WorkerIds : wpc[w] \notin {"scan", "locked"}
    /\ Cardinality(Accessing) <= 1

C15_Witness ==
    /\ pcS = "save_active"
    /\ lock = Free
    /\ Cardinality(DOMAIN results) = 2
    /\ \E w \in Started : wpc[w] = "taskdone"

\* the report is complete
ReportWritten == pcS \in {"log", "returned"} /\ report # None

Urls(sites) == {sites[i].url : i \in DOMAIN sites}

NoRepeat(sites, urls) == Len(sites) = Cardinality(urls)

\* C16: once _save_results has run, each target of the results map stands
\* once in the section of its status and in no other section; an entry of
\* the Active section carries the response code, title, server header,
\* content type and link count of the result; the Error section holds the
\* error-status targets.
C16_ReportListsEachTargetOnce ==
    ReportWritten =>
        LET r == report[1]
            activeUrls == Urls(r.active_sites)
            inactiveUrls == Range(r.inactive_sites)
            errorUrls == Urls(r.error_sites)
        IN /\ activeUrls = HasStatus("active")
           /\ inactiveUrls = HasStatus("inactive")
           /\ errorUrls = HasStatus("error")
           /\ NoRepeat(r.active_sites, activeUrls)
           /\ NoRepeat(r.inactive_sites, inactiveUrls)
           /\ NoRepeat(r.error_sites, errorUrls)
           /\ activeUrls \cup inactiveUrls \cup errorUrls = DOMAIN results
           /\ activeUrls \cap inactiveUrls = {}
           /\ activeUrls \cap errorUrls = {}
           /\ inactiveUrls \cap errorUrls = {}
           /\ \A i \in DOMAIN r.active_sites :
                 LET e == r.active_sites[i]
                     res == results[e.url]
                 IN /\ e.response_code = res.response_code
                    /\ e.title = res.title
                    /\ e.server = res.server
                    /\ e.content_type = res.content_type
                    /\ e.links = res.links

C16_Witness ==
    /\ pcS = "returned"
    /\ report # None
    /\ \E i \in DOMAIN report[1].active_sites :
          /\ report[1].active_sites[i].title = Some(<<"T">>)
          /\ report[1].active_sites[i].links = 1
    /\ Len(report[1].error_sites) = 1

\* number of elements taken off the queue so far
Dequeued == Len(Loaded) - Len(queue)

RECURSIVE SumWrites(_)
SumWrites(S) ==
    IF S = {} THEN 0
    ELSE LET d == CHOOSE x \in S : TRUE
         IN writes[d] + SumWrites(S \ {d})

\* number of assignments self.results[domain] = ... made so far
Stored == SumWrites(DOMAIN writes)

\* C17: the queue is first in, first out.  After the load the queue is the
\* part of the loaded list that has not been dequeued, in file order, and
\* each dequeue hands the next target of the file to one worker, for every
\* worker count; with one worker the n results stored so far are those of
\* the first n targets of the file.
C17_FifoDequeue ==
    /\ []((LoadedOk /\ pcS # "load") =>
            /\ queue = SubSeq(Loaded, Dequeued + 1, Len(Loaded))
            /\ (threads = 1 =>
                  /\ Stored <= Len(Loaded)
                  /\ DOMAIN results = Range(SubSeq(Loaded, 1, Stored))))
    /\ [][(pcS # "load" /\ queue' # queue) =>
            \E w \in WorkerIds :
                /\ wpc[w] = "get"
                /\ wpc'[w] = "scan"
                /\ wdomain'[w] = Some(Loaded[Dequeued + 1])]_vars

C17_Witness ==
    /\ threads = 1
    /\ LoadedOk
    /\ Len(Loaded) = 2
    /\ Loaded[1] # Loaded[2]
    /\ Stored = 1
    /\ DOMAIN results = {Loaded[1]}
    /\ \E w \in Started : wpc[w] = "scan" /\ wdomain[w] = Some(Loaded[2])

\* a result of a target submitted later is in the map before the result of
\* a target submitted earlier
InsertedOutOfOrder ==
    /\ LoadedOk
    /\ Len(Loaded) = 2
    /\ Loaded[1] # Loaded[2]
    /\ Loaded[2] \in DOMAIN results
    /\ Loaded[1] \notin DOMAIN results

\* C18: the final results map does not depend on the order in which the
\* workers complete: the assignments to the map commute, that is, no
\* assignment replaces an entry of the map by a different entry.
C18_FinalMapIndependentOfOrder ==
    [][\A d \in DOMAIN results : results'[d] = results[d]]_vars

\* the request of worker w was answered by an HTTP response
Answered(w) == wout[w] # None /\ wout[w][1].kind = "response"

\* the Content-Type header of the response is there and contains 'text/html'
HtmlResponse(o) ==
    o.content_type # None /\ Contains(o.content_type[1], <<"text/html">>)

\* the entry stored for the request worker w has just finished
StoredFor(w) == results[wdomain[w][1]]

ActiveWithCode(w) ==
    /\ wpc[w] = "locked"
    /\ StoredFor(w).status = "active"
    /\ StoredFor(w).response_code = Some(wout[w][1].status_code)

Unparsed(w) ==
    /\ StoredFor(w).title = None
    /\ StoredFor(w).links = 0

\* C19 as stated: every HTTP response, whatever its status code, is stored
\* as active with that status code, and a response whose Content-Type is
\* missing or does not contain 'text/html' is stored with a null title and
\* link count 0.
C19_AnyResponseIsActive ==
    \A w \in WorkerIds :
        Answered(w) =>
            /\ ActiveWithCode(w)
            /\ ~HtmlResponse(wout[w][1]) => Unparsed(w)

\* C19 amended: that holds unless the Content-Type contains 'text/html' and
\* parsing the body raises; then the entry has status 'error' and no
\* response code.
C19_AnyParsedResponseIsActive ==
    \A w \in WorkerIds :
        Answered(w) =>
            IF HtmlResponse(wout[w][1]) /\ wout[w][1].body.parse_exc # None
            THEN /\ wpc[w] = "locked"
                 /\ StoredFor(w).status = "error"
                 /\ "response_code" \notin DOMAIN StoredFor(w)
            ELSE /\ ActiveWithCode(w)
                 /\ ~HtmlResponse(wout[w][1]) => Unparsed(w)

C19_Witness ==
    \E w \in WorkerIds :
        /\ Answered(w)
        /\ wout[w][1].status_code = 404
        /\ wout[w][1].content_type = None
        /\ wout[w][1].body.title # None
        /\ ActiveWithCode(w)
        /\ Unparsed(w)

Statuses == {"active", "inactive", "error"}

\* the entry has a response code that is not None
HasResponseCode(r) == "response_code" \in DOMAIN r /\ r.response_code # None

\* C20: every entry of the results map has one of the statuses 'active',
\* 'inactive', 'error', and has a response code that is not None exactly
\* when its status is 'active'.
C20_StatusAndResponseCode ==
    \A d \in DOMAIN results :
        /\ results[d].status \in Statuses
        /\ HasResponseCode(results[d]) <=> results[d].status = "active"

C20_Witness ==
    /\ \E d \in DOMAIN results :
          results[d].status = "active" /\ results[d].response_code = Some(404)
    /\ \E d \in DOMAIN results :
          results[d].status = "error" /\ ~HasResponseCode(results[d])

\* C22: whenever self.lock is free active_count is the number of entries of
\* the results map with status 'active', active_count <= len(results) <=
\* total_count, and the 'Active' figure of the report header is the number
\* of targets listed in the Active section.
C22_ActiveCountIsNumberOfActiveEntries ==
    /\ lock = Free =>
          /\ active_count = Cardinality(HasStatus("active"))
          /\ active_count <= Cardinality(DOMAIN results)
          /\ Cardinality(DOMAIN results) <= total_count
    /\ (ReportWritten /\ pcS = "returned") =>
          report[1].active = Len(report[1].active_sites)

\* workers that can still assign self.results or self.active_count
Writers == {w \in WorkerIds : wpc[w] \in {"scan", "locked"}}

\* C23: once start() has left its progress loop, on either exit path, no
\* worker writes the results map or active_count: no step changes them,
\* no worker has a request in flight or is in its critical section, and
\* nothing is left on the queue for a worker to scan.
C23_NoWriteAfterLoop ==
    /\ [](LeftLoop => (Writers = {} /\ queue = <<>> /\ lock = Free))
    /\ [][LeftLoop => (results' = results /\ active_count' = active_count)]_vars

C23_Witness ==
    /\ pcS = "save_header"
    /\ threads = 2
    /\ processed = 2
    /\ total_count = 2
    /\ wpc[1] = "taskdone"
    /\ wpc[2] = "get"

\* C24: the progress count of start() never decreases and never exceeds
\* total_count, and when the progress loop has ended the count given to the
\* progress bar is the number of entries of the results map.
C24_ProgressCountMatchesResults ==
    /\ [][processed' >= processed]_vars
    /\ [](processed <= total_count)
    /\ [](LeftLoop => pbar[1].n = Cardinality(DOMAIN results))

\* the input file is read and gives no target
NoTargets == LoadedOk /\ Loaded = <<>>

EmptyReport ==
    Some([total |-> 0, active |-> 0, active_sites |-> <<>>,
          inactive_sites |-> <<>>, error_sites |-> <<>>])

\* C25: for a file that is read and gives no target no request is ever
\* made, a worker that runs leaves at its first dequeue, the body of the
\* progress loop is never executed, and start() has started its N workers,
\* written a report of zero targets and returned True when it has returned.
C25_EmptyListScan ==
    /\ [](NoTargets =>
            /\ requests = EmptyMap
            /\ results = EmptyMap
            /\ \A w \in WorkerIds : wpc[w] \in {"unstarted", "get", "dead"}
            /\ pcS \notin {"readlen", "check"}
            /\ processed = 0
            /\ pbar # None => pbar[1].n = 0)
    /\ []((NoTargets /\ pcS = "returned") =>
            /\ spawned = threads
            /\ report = EmptyReport
            /\ ret = Some(TRUE))
    /\ [][NoTargets =>
            \A w \in WorkerIds : wpc'[w] # wpc[w] =>
                \/ wpc[w] = "unstarted" /\ wpc'[w] = "get"
                \/ wpc[w] = "get" /\ wpc'[w] = "dead"]_vars

C25_Witness ==
    /\ NoTargets
    /\ file.lines # <<>>
    /\ pcS = "returned"
    /\ threads = 2
    /\ \A w \in 1..threads : wpc[w] = "dead"

\* the log record of the line instance i would get, i the index of the hop
Socks5ProxyNote(i) ==
    [msg |-> "Would add to torrc", arg |-> <<<<"Socks5Proxy", 9050 + i - 1>>>>]

ChainNotes == {m \in mhLog : m.msg = "Would add to torrc"}

ChainSetUp == mhPc \in {"test", "ready", "keepalive"} \/ mhRet = Some(TRUE)

\* C21: no step of TorMultiHop.start() changes the configuration of a Tor
\* instance; a round of _create_proxy_chain for hop i only logs the
\* Socks5Proxy line of hop i and goes on to hop i - 1, and when the chain is
\* said to be set up the lines logged are those of the hops num_hops-1 .. 1.
C21_NoActualChaining ==
    /\ [][torrc' = torrc]_vars
    /\ [][(mhPc = "create" /\ mhPc' = "create") =>
            /\ mhI >= 1
            /\ mhI' = mhI - 1
            /\ mhLog' \ mhLog \subseteq
                  {Socks5ProxyNote(mhI), [msg |-> "Configuring", arg |-> <<mhI + 1>>]}
            /\ Socks5ProxyNote(mhI) \in mhLog']_vars
    /\ [](ChainSetUp => ChainNotes = {Socks5ProxyNote(i) : i \in 1..(num_hops - 1)})

C21_Witness ==
    /\ mhPc = "keepalive"
    /\ num_hops = 3
    /\ ChainNotes = {Socks5ProxyNote(1), Socks5ProxyNote(2)}
    /\ torrc[2] = {<<"SocksPort", 9052>>, <<"ControlPort", 9152>>}

\* C26: start() logs 'Multi-hop proxy chain is ready' and enters its
\* keep-alive loop only when the chain test before it returned True.
C26_ReadyOnlyAfterTestPassed ==
    [][(mhPc = "ready" /\ mhPc' = "keepalive") => mhTest = Some(TRUE)]_vars

Broadcasting(c) == hpc[c] \in {"next", "send"}

\* C27: when a handler's broadcast of its client's message ends, the message
\* has been sent to every other client that was in the list and connected
\* from the start of the broadcast to its end, and no message is ever sent
\* to the client it came from.
C27_BroadcastReachesAllOthers ==
    /\ [][\A c \in ClientIds :
            (Broadcasting(c) /\ ~Broadcasting(c)') =>
                \A r \in stayed'[c] : <<c, r>> \in delivered']_vars
    /\ [](\A c \in ClientIds : <<c, c>> \notin delivered)

\* C28: a send that raises in a handler's broadcast does not end the
\* session of the sending client: the handler goes on with the next
\* recipient and does not take its client off the list or close it.
C28_SendFailureKeepsSender ==
    [][\A c \in ClientIds :
         (sendFailed'[c] /\ ~sendFailed[c]) =>
             /\ hpc'[c] = "next"
             /\ c \in Range(clients')]_vars

\* every connection is accepted and every handler thread has ended
AllHandlersFinished ==
    /\ p2pAccepted = MaxPeers
    /\ \A c \in PeerIds : ppc[c] \in {"done", "crashed"}

\* the handlers that wrote the file
FileWriters == {c \in PeerIds : ppc[c] = "done"}

\* C29: after all handlers have finished, the file 'received_file' holds
\* exactly the bytes received from one of the clients whose handler wrote
\* it, never a mixture of the bytes of two clients.
C29_FileHoldsOneClientsBytes ==
    (AllHandlersFinished /\ FileWriters # {}) =>
        \E c \in FileWriters : received_file = file_data[c]

\* callers that have sent NEWNYM and not yet stored the new count
Counting == {t \in Callers : spc[t] \in {"acquire", "load", "store"}}

\* C30: identity_count is the number of NEWNYM signals sent successfully,
\* less those whose sender has still to store its increment (so the two are
\* equal whenever no caller is between the signal and the store); each step
\* leaves the counter as it is or adds one to it, a call that returns False
\* leaves it as it is, and the counter is assigned only under the lock.
C30_CountsSuccessfulSwitches ==
    /\ [](identity_count + Cardinality(Counting) = sent)
    /\ [][identity_count' \in {identity_count, identity_count + 1}]_vars
    /\ [][\A t \in Callers :
            (swRet'[t] = Some(FALSE) /\ spc[t] # "idle" /\ spc'[t] = "idle") =>
                (identity_count' = identity_count /\ sent' = sent)]_vars
    /\ [][identity_count' # identity_count =>
            \E t \in Callers : swLock = t /\ spc[t] = "store"]_vars

C30_Witness ==
    /\ identity_count = 2
    /\ sent = 3
    /\ spc["loop"] = "release"
    /\ spc["api"] = "acquire"
    /\ swRet["api"] = Some(TRUE)

====
